---- MODULE Spec2Model ----
(***************************************************************************)
(* Model of the SYSC4130 quiz tool: the question store, the quiz session   *)
(* loop and its final report (main.py), and the option-shuffle transform   *)
(* (shuffle_answers.py).                                                   *)
(***************************************************************************)
EXTENDS Integers, Sequences, FiniteSets, TLC

VARIABLES
    pc,                 \* position of the program (see the actions)
    questions,          \* QuizApp.questions
    total_questions,    \* QuizApp.total_questions
    score,              \* QuizApp.score
    answered_questions, \* QuizApp.answered_questions
    i,                  \* loop variable of run_quiz (1-based question number)
    presented,          \* history: the questions handed to ask_question, in order
    input,              \* history: QuizApp.questions as it was before random.shuffle
    report,             \* what show_final_results printed
    raised,             \* the exception that ended the run, if any
    files,              \* the questions directory: lecture name -> document
    visited,            \* history: the load_questions calls and their results
    result,             \* return value of load_questions / load_all_lectures
    data,               \* the document shuffle_lecture_file works on
    original            \* history: that document as it was read

vars == <<pc, questions, total_questions, score, answered_questions, i,
          presented, input, report, raised, files, visited, result, data, original>>

sessionVars == <<questions, total_questions, score, answered_questions, i,
                 presented, input, report, raised>>
storeVars == <<files, visited, result>>
shuffleVars == <<data, original>>

----------------------------------------------------------------------------
(* Bounds of the model *)

MaxQuestions == 3
MaxAnswered == 10
MaxSources == 3
MaxPerSource == 2
MaxOptions == 3

----------------------------------------------------------------------------
(* Helpers *)

\* The value Python's None takes where an option index is expected.
None == -1

Range(s) == { s[k] : k \in 1..Len(s) }

SeqsUpTo(S, n) == UNION { [1..k -> S] : k \in 0..n }

\* The injective functions 1..n -> 1..n
PermFns(n) == { f \in [1..n -> 1..n] : \A a, b \in 1..n : a # b => f[a] # f[b] }

\* How many positions of s hold x
Count(s, x) == Cardinality({ k \in 1..Len(s) : s[k] = x })

\* Same multiset of elements
SameBag(s, t) ==
    /\ Len(s) = Len(t)
    /\ \A x \in Range(s) \cup Range(t) : Count(s, x) = Count(t, x)

----------------------------------------------------------------------------
(* Questions *)

\* The question entries the session model draws its inputs from: different
\* option counts, different correct indices, and one with a duplicated text.
QuestionCatalog ==
    { [question |-> "q1", options |-> <<"x", "y">>, correct_answer |-> 1],
      [question |-> "q2", options |-> <<"x", "y", "z">>, correct_answer |-> 0],
      [question |-> "q3", options |-> <<"x", "x">>, correct_answer |-> 1] }

QuestionLists == SeqsUpTo(QuestionCatalog, MaxQuestions)

----------------------------------------------------------------------------
(* Scoring and the final report *)

\* A percentage is kept as the exact fraction num/den. Python computes
\* (score / n) * 100 in floating point; for 0 <= score <= n < 1500 the float
\* compares with 60, 75 and 90 exactly as the fraction does.
\* err is TRUE when evaluating the expression divides by zero.
Zero == [num |-> 0, den |-> 1, err |-> FALSE]

DivideTimes100(a, b) ==
    IF b = 0 THEN [num |-> 0, den |-> 0, err |-> TRUE]
    ELSE [num |-> a * 100, den |-> b, err |-> FALSE]

AtLeast(p, t) == p.num >= t * p.den

\* print_progress_bar: int(bar_length * current / total), (current / total) * 100
print_progress_bar(current, total) == DivideTimes100(current, total)

\* show_score: (self.score / current_question) * 100 if current_question > 0 else 0
show_score(sc, current_question) ==
    IF current_question > 0 THEN DivideTimes100(sc, current_question) ELSE Zero

\* show_final_results, line 253
final_percentage_unguarded(sc, questions_answered) == DivideTimes100(sc, questions_answered)

final_percentage(sc, questions_answered) ==
    IF questions_answered > 0 THEN DivideTimes100(sc, questions_answered) ELSE Zero

\* show_final_results, lines 260-267: the feedback branch taken
performance_strict(percentage) ==
    IF percentage.num > 90 * percentage.den THEN "excellent"
    ELSE IF percentage.num > 75 * percentage.den THEN "great"
    ELSE IF percentage.num > 60 * percentage.den THEN "good"
    ELSE "needs_study"

performance(percentage) ==
    IF AtLeast(percentage, 90) THEN "excellent"
    ELSE IF AtLeast(percentage, 75) THEN "great"
    ELSE IF AtLeast(percentage, 60) THEN "good"
    ELSE "needs_study"

NoReport ==
    [shown |-> FALSE, answered |-> 0, score |-> 0, percentage |-> Zero,
     tier |-> "none", correct_count |-> 0, incorrect_count |-> 0]

\* show_final_results, line 270: sum(1 for q in self.answered_questions if q['is_correct'])
CorrectCount(log) == Cardinality({ k \in 1..Len(log) : log[k].is_correct })

\* show_final_results: the printed report
show_final_results(sc, answered) ==
    LET questions_answered == Len(answered)
        percentage == final_percentage(sc, questions_answered)
        correct_count == CorrectCount(answered)
    IN  [shown |-> TRUE, answered |-> questions_answered, score |-> sc,
         percentage |-> percentage, tier |-> performance(percentage),
         correct_count |-> correct_count,
         incorrect_count |-> questions_answered - correct_count]

----------------------------------------------------------------------------
(* The quiz session: QuizApp.run_quiz and main *)

\* random.shuffle(self.questions): any reordering of the list
Shuffles_resample(qs) == [1..Len(qs) -> Range(qs)]

Shuffles(qs) == { [k \in 1..Len(qs) |-> qs[f[k]]] : f \in PermFns(Len(qs)) }

\* ask_question: the index of the chosen option, or None for "Quit Quiz"
ask_question(question) == { None } \cup (0 .. Len(question.options) - 1)

\* check_answer: the verdict and the score after it
check_answer_no_increment(sc, user_answer, correct_answer) ==
    LET is_correct == user_answer = correct_answer
    IN  [is_correct |-> is_correct, score |-> sc]

check_answer(sc, user_answer, correct_answer) ==
    LET is_correct == user_answer = correct_answer
    IN  [is_correct |-> is_correct, score |-> IF is_correct THEN sc + 1 ELSE sc]

\* run_quiz, lines 231-237: the record stored for review
AnswerRecord_zero_based(question, user_answer, correct_answer, is_correct, num) ==
    [question |-> question, user_answer |-> user_answer,
     correct_answer |-> correct_answer, is_correct |-> is_correct,
     question_num |-> num - 1]

AnswerRecord(question, user_answer, correct_answer, is_correct, num) ==
    [question |-> question, user_answer |-> user_answer,
     correct_answer |-> correct_answer, is_correct |-> is_correct,
     question_num |-> num]

SessionFresh ==
    /\ total_questions = 0
    /\ score = 0
    /\ answered_questions = <<>>
    /\ i = 0
    /\ presented = <<>>
    /\ input = <<>>
    /\ report = NoReport
    /\ raised = "none"

StoreIdle == files = <<>> /\ visited = <<>> /\ result = FALSE

ShuffleIdle == data = <<>> /\ original = <<>>

\* After select_lecture returned True on a new QuizApp
Init ==
    /\ pc = "loaded"
    /\ questions \in QuestionLists
    /\ SessionFresh
    /\ StoreIdle
    /\ ShuffleIdle

\* An uncaught ZeroDivisionError ends the process
Crash ==
    /\ pc' = "crashed"
    /\ raised' = "ZeroDivisionError"
    /\ UNCHANGED <<questions, total_questions, score, answered_questions, i,
                   presented, input, report>>

\* run_quiz up to the first ask_question (lines 199-219)
RunQuizStart ==
    /\ pc = "loaded"
    /\ IF questions = <<>>
       THEN /\ pc' = "norun"
            /\ UNCHANGED sessionVars
       ELSE \E shuffled \in Shuffles(questions) :
              IF print_progress_bar(0, Len(shuffled)).err
              THEN Crash
              ELSE /\ questions' = shuffled
                   /\ total_questions' = Len(shuffled)
                   /\ input' = questions
                   /\ i' = 1
                   /\ presented' = <<shuffled[1]>>
                   /\ pc' = "asking"
                   /\ UNCHANGED <<score, answered_questions, report, raised>>
    /\ UNCHANGED <<storeVars, shuffleVars>>

\* One pass of the loop body after ask_question returned an index
\* (lines 225-245), and show_final_results after the last question (line 247)
AnswerQuestion ==
    /\ pc = "asking"
    /\ \E user_answer \in ask_question(questions[i]) \ { None } :
         LET question == questions[i]
             correct_answer == question.correct_answer
             chk == check_answer(score, user_answer, correct_answer)
             log == Append(answered_questions,
                           AnswerRecord(question, user_answer, correct_answer,
                                        chk.is_correct, i))
             final == show_final_results(chk.score, log)
         IN  IF show_score(chk.score, i).err
                \/ (i >= total_questions /\ final.percentage.err)
             THEN Crash
             ELSE /\ score' = chk.score
                  /\ answered_questions' = log
                  /\ IF i < total_questions
                     THEN pc' = "pause" /\ report' = report
                     ELSE pc' = "completed" /\ report' = final
                  /\ UNCHANGED <<questions, total_questions, i, presented, input, raised>>
    /\ UNCHANGED <<storeVars, shuffleVars>>

\* The next pass of the loop up to ask_question (lines 218-219)
ContinueQuiz ==
    /\ pc = "pause"
    /\ IF print_progress_bar(i, total_questions).err
       THEN Crash
       ELSE /\ i' = i + 1
            /\ presented' = Append(presented, questions[i + 1])
            /\ pc' = "asking"
            /\ UNCHANGED <<questions, total_questions, score, answered_questions,
                           input, report, raised>>
    /\ UNCHANGED <<storeVars, shuffleVars>>

\* ask_question returned None: break, then show_final_results (lines 221-223, 247)
QuitQuiz_record ==
    /\ pc = "asking"
    /\ LET log == Append(answered_questions,
                         AnswerRecord(questions[i], None, questions[i].correct_answer,
                                      FALSE, i))
           final == show_final_results(score, log)
       IN  /\ answered_questions' = log
           /\ report' = final
           /\ pc' = "aborted"
           /\ UNCHANGED <<questions, total_questions, score, i, presented, input, raised>>
    /\ UNCHANGED <<storeVars, shuffleVars>>

QuitQuiz_return ==
    /\ pc = "asking"
    /\ pc' = "aborted"
    /\ UNCHANGED <<sessionVars, storeVars, shuffleVars>>

QuitQuiz ==
    /\ pc = "asking"
    /\ LET final == show_final_results(score, answered_questions)
       IN  IF final.percentage.err
           THEN Crash
           ELSE /\ report' = final
                /\ pc' = "aborted"
                /\ UNCHANGED <<questions, total_questions, score, answered_questions,
                               i, presented, input, raised>>
    /\ UNCHANGED <<storeVars, shuffleVars>>

InProgress == { "asking", "pause" }

\* main, lines 412-414: KeyboardInterrupt leaves run_quiz and ends the process
KeyboardInterrupt ==
    /\ pc \in { "loaded", "asking", "pause", "norun", "completed", "aborted" }
    /\ pc' = "exited"
    /\ UNCHANGED <<sessionVars, storeVars, shuffleVars>>

\* main, lines 399-406: "Take another quiz?" answered yes, a new QuizApp is loaded
TakeAnother ==
    /\ pc \in { "norun", "completed", "aborted" }
    /\ pc' = "loaded"
    /\ questions' \in QuestionLists
    /\ total_questions' = 0
    /\ score' = 0
    /\ answered_questions' = <<>>
    /\ i' = 0
    /\ presented' = <<>>
    /\ input' = <<>>
    /\ report' = NoReport
    /\ raised' = "none"
    /\ UNCHANGED <<storeVars, shuffleVars>>

\* main, lines 407-410: answered no
Finish ==
    /\ pc \in { "norun", "completed", "aborted" }
    /\ pc' = "done"
    /\ UNCHANGED <<sessionVars, storeVars, shuffleVars>>

Next ==
    \/ RunQuizStart
    \/ AnswerQuestion
    \/ ContinueQuiz
    \/ QuitQuiz
    \/ KeyboardInterrupt
    \/ TakeAnother
    \/ Finish

Spec == Init /\ [][Next]_vars

----------------------------------------------------------------------------
(* Properties of the quiz session, checked under Spec *)

\* C1: in every reachable state of a run the score equals the number of
\* records whose is_correct is true, each record's is_correct is
\* (user_answer = correct_answer of its question) compared by index, and
\* 0 <= score <= number of records <= size of the working set; the final
\* report, completed or aborted, shows that score over those records.
Thm_C1 ==
    /\ score = CorrectCount(answered_questions)
    /\ \A k \in 1..Len(answered_questions) :
         /\ answered_questions[k].correct_answer
              = answered_questions[k].question.correct_answer
         /\ answered_questions[k].is_correct
              = (answered_questions[k].user_answer
                   = answered_questions[k].question.correct_answer)
    /\ 0 <= score
    /\ score <= Len(answered_questions)
    /\ Len(answered_questions) <= Len(questions)
    /\ report.shown =>
         /\ report.score = score
         /\ report.answered = Len(answered_questions)
         /\ report.correct_count = score

\* A finished run with both right and wrong answers; one of the wrong answers
\* picked an option whose text equals the correct option's text.
Wit_C1 ==
    /\ pc \in { "completed", "aborted" }
    /\ score >= 1
    /\ \E k \in 1..Len(answered_questions) :
         LET r == answered_questions[k]
         IN  /\ ~r.is_correct
             /\ r.question.options[r.user_answer + 1]
                  = r.question.options[r.correct_answer + 1]

\* C2: when ask_question returns the abort sentinel for the k-th question, no
\* record is created for it, the score is unchanged, no later question is
\* presented, and the final report counts k-1 answered questions, the records
\* already in the log.
Thm_C2 ==
    [][ /\ (pc = "asking" /\ pc' = "aborted") =>
             /\ answered_questions' = answered_questions
             /\ score' = score
             /\ presented' = presented
             /\ Len(presented) = i
             /\ report'.shown
             /\ report'.answered = i - 1
             /\ report'.answered = Len(answered_questions)
             /\ report'.score = score
        /\ (pc = "aborted" /\ pc' # "loaded") => presented' = presented
      ]_vars

\* Aborted at the second of three questions: the report counts one answer.
Wit_C2 ==
    /\ pc = "aborted"
    /\ i = 2
    /\ total_questions = 3
    /\ report.shown
    /\ report.answered = 1

\* C3: a session run to exhaustion presented exactly the N loaded questions,
\* each as often as it was loaded, in the order fixed by the one shuffle at
\* the start; the working set does not change while questions are asked.
Thm_C3 ==
    /\ [](pc = "completed" =>
            /\ Len(input) >= 1
            /\ Len(presented) = Len(input)
            /\ total_questions = Len(input)
            /\ SameBag(presented, input)
            /\ presented = questions)
    /\ [][(pc \in InProgress) => questions' = questions]_vars

\* Three questions, one of them loaded twice, asked in another order than loaded.
Wit_C3 ==
    /\ pc = "completed"
    /\ Len(input) = 3
    /\ presented # input
    /\ \E a, b \in 1..3 : a # b /\ input[a] = input[b]

\* C4: the k-th record references the k-th question of the working set (the
\* k-th presented) and carries position k; a step that appends a record
\* leaves every earlier record as it was.
Thm_C4 ==
    /\ [](/\ Len(answered_questions) <= Len(presented)
          /\ \A k \in 1..Len(answered_questions) :
               /\ answered_questions[k].question = questions[k]
               /\ answered_questions[k].question = presented[k]
               /\ answered_questions[k].question_num = k)
    /\ [][pc' # "loaded" =>
            /\ Len(answered_questions') >= Len(answered_questions)
            /\ Len(answered_questions') <= Len(answered_questions) + 1
            /\ SubSeq(answered_questions', 1, Len(answered_questions))
                 = answered_questions
       ]_vars

Wit_C4 ==
    /\ pc = "completed"
    /\ Len(answered_questions) = 3
    /\ answered_questions[3].question_num = 3
    /\ answered_questions[1].question # answered_questions[3].question

\* C5 as stated: every way of leaving InProgress other than exhaustion, the
\* abort sentinel or an interrupt, ends in Aborted with the final report
\* produced over the answered questions.
CE_C5 ==
    [][ (pc \in InProgress /\ pc' \notin InProgress /\ pc' # "completed") =>
          /\ pc' = "aborted"
          /\ report'.shown
          /\ report'.answered = Len(answered_questions)
      ]_vars

\* C5 amended: the abort sentinel ends the session in Aborted with the final
\* report over the records already in the log; a KeyboardInterrupt reaching
\* main ends the process and no report is produced by it.
Thm_C5 ==
    [][ /\ (pc \in InProgress /\ pc' \notin InProgress \cup { "completed", "exited" }) =>
             /\ pc = "asking"
             /\ pc' = "aborted"
             /\ report'.shown
             /\ report'.answered = Len(answered_questions)
             /\ report'.score = score
             /\ answered_questions' = answered_questions
        /\ pc' = "exited" =>
             /\ report' = report
             /\ answered_questions' = answered_questions
        /\ (pc \in InProgress /\ pc' = "exited") => ~report'.shown
      ]_vars

Wit_C5 ==
    /\ pc = "aborted"
    /\ report.shown
    /\ report.answered = 2
    /\ total_questions = 3

\* C6: no ZeroDivisionError is raised in any reachable state, the final report
\* over zero answered questions shows exactly 0 percent, and so does the
\* running score asked for at position 0.
Thm_C6 ==
    /\ raised = "none"
    /\ pc # "crashed"
    /\ (report.shown /\ report.answered = 0) => report.percentage = Zero
    /\ show_score(score, 0) = Zero

\* The user quit at the first question.
Wit_C6 ==
    /\ pc = "aborted"
    /\ i = 1
    /\ report.shown
    /\ report.answered = 0
    /\ report.percentage = Zero

----------------------------------------------------------------------------
(* The final report on its own: show_final_results over runs of up to
   MaxAnswered answered questions *)

\* The log of a run in which the user answered the first n questions of a
\* working set of n + 1 copies of one question, verdicts[k] telling whether
\* the k-th answer was the correct option.
ReportQuestion == [question |-> "q1", options |-> <<"x", "y">>, correct_answer |-> 1]

LogOf(verdicts) ==
    [k \in 1..Len(verdicts) |->
       AnswerRecord(ReportQuestion, IF verdicts[k] THEN 1 ELSE 0, 1, verdicts[k], k)]

\* run_quiz waiting in ask_question for question n + 1, n answers recorded
InitReport ==
    \E n \in 0..MaxAnswered : \E verdicts \in [1..n -> BOOLEAN] :
        /\ pc = "asking"
        /\ questions = [k \in 1..(n + 1) |-> ReportQuestion]
        /\ total_questions = n + 1
        /\ input = questions
        /\ presented = questions
        /\ i = n + 1
        /\ answered_questions = LogOf(verdicts)
        /\ score = CorrectCount(answered_questions)
        /\ report = NoReport
        /\ raised = "none"
        /\ StoreIdle
        /\ ShuffleIdle

NextReport == QuitQuiz

SpecReport == InitReport /\ [][NextReport]_vars

\* C7: the tier of the final report follows inclusive lower bounds taken
\* highest first on correct/answered*100 (0 when nothing was answered):
\* >= 90 excellent, else >= 75 great, else >= 60 good, else needs_study;
\* exactly one tier is shown, and 2 correct of 3 gives good.
Thm_C7 ==
    report.shown =>
      LET c == report.score
          a == report.answered
      IN  /\ 0 <= c /\ c <= a
          /\ report.tier \in { "excellent", "great", "good", "needs_study" }
          /\ (report.tier = "excellent") <=> (a > 0 /\ 100 * c >= 90 * a)
          /\ (report.tier = "great") <=> (a > 0 /\ 100 * c >= 75 * a /\ 100 * c < 90 * a)
          /\ (report.tier = "good") <=> (a > 0 /\ 100 * c >= 60 * a /\ 100 * c < 75 * a)
          /\ (report.tier = "needs_study") <=> (a = 0 \/ 100 * c < 60 * a)
          /\ (c = 2 /\ a = 3) => report.tier = "good"

\* Exactly 90 percent: 9 correct of 10 answered is shown as excellent.
Wit_C7 ==
    /\ report.shown
    /\ report.answered = 10
    /\ report.score = 9
    /\ report.tier = "excellent"

----------------------------------------------------------------------------
(* The question store: get_available_lectures, load_questions,
   load_all_lectures, select_lecture *)

\* Lecture names are 1..MaxSources, ordered as sorted() orders the file stems.
LectureNames == 1..MaxSources

\* What a lecture file can be when it is loaded:
\*   absent       not in the directory listing
\*   vanished     listed, but gone when load_questions looks (line 111)
\*   badjson      json.load raises JSONDecodeError (line 120)
\*   unreadable   open/read raises another exception (line 123)
\*   nonobject    valid JSON that is no object: data.get raises (line 123)
\*   noquestions  a JSON object without the key 'questions'
\*   ok           a JSON object whose 'questions' is a list of n entries
FailingKinds == { "vanished", "badjson", "unreadable", "nonobject" }

Documents ==
    { [kind |-> k, n |-> 0] : k \in FailingKinds \cup { "absent", "noquestions" } }
      \cup { [kind |-> "ok", n |-> m] : m \in 0..MaxPerSource }

\* The k-th entry of lecture name's file; neighbouring lectures share an entry,
\* as nothing removes duplicates.
StoredQuestion(name, k) ==
    [question |-> name + k - 1, options |-> <<"x", "y">>,
     correct_answer |-> (name + k) % 2]

StoredQuestions(name, doc) == [k \in 1..doc.n |-> StoredQuestion(name, k)]

RECURSIVE SortedSeq(_)
SortedSeq(S) ==
    IF S = {} THEN <<>>
    ELSE LET m == CHOOSE x \in S : \A y \in S : x <= y
         IN  <<m>> \o SortedSeq(S \ { m })

\* get_available_lectures: the sorted stems of the files the directory lists
\* (an absent directory lists none)
get_available_lectures(dir) ==
    SortedSeq({ name \in DOMAIN dir : dir[name].kind # "absent" })

\* load_questions: the return value and self.questions after the call
load_questions_require_key(qs, dir, lecture_name) ==
    LET doc == dir[lecture_name]
    IN  IF doc.kind = "ok"
        THEN [ok |-> TRUE, questions |-> qs \o StoredQuestions(lecture_name, doc)]
        ELSE [ok |-> FALSE, questions |-> qs]

load_questions(qs, dir, lecture_name) ==
    LET doc == dir[lecture_name]
    IN  IF doc.kind \in { "absent", "vanished" }
        THEN [ok |-> FALSE, questions |-> qs]
        ELSE IF doc.kind = "badjson"
        THEN [ok |-> FALSE, questions |-> qs]
        ELSE IF doc.kind \in { "unreadable", "nonobject" }
        THEN [ok |-> FALSE, questions |-> qs]
        ELSE IF doc.kind = "noquestions"
        THEN [ok |-> TRUE, questions |-> qs \o <<>>]
        ELSE [ok |-> TRUE, questions |-> qs \o StoredQuestions(lecture_name, doc)]

Visit(lecture, loaded, before) ==
    [lecture |-> lecture, ok |-> loaded.ok,
     before |-> Len(before), after |-> Len(loaded.questions)]

\* load_all_lectures, lines 135-136: the loop over the lectures
RECURSIVE LoadEach(_, _, _, _)
LoadEach(lectures, qs, dir, log) ==
    IF lectures = <<>> THEN [questions |-> qs, visited |-> log]
    ELSE LET loaded == load_questions(qs, dir, Head(lectures))
         IN  LoadEach(Tail(lectures), loaded.questions, dir,
                      Append(log, Visit(Head(lectures), loaded, qs)))

RECURSIVE LoadUntilFailure(_, _, _, _)
LoadUntilFailure(lectures, qs, dir, log) ==
    IF lectures = <<>> THEN [questions |-> qs, visited |-> log]
    ELSE LET loaded == load_questions(qs, dir, Head(lectures))
             seen == Append(log, Visit(Head(lectures), loaded, qs))
         IN  IF loaded.ok
             THEN LoadUntilFailure(Tail(lectures), loaded.questions, dir, seen)
             ELSE [questions |-> qs, visited |-> seen]

load_all_lectures_stop_at_failure(qs, dir) ==
    LET lectures == get_available_lectures(dir)
        all == LoadUntilFailure(lectures, qs, dir, <<>>)
    IN  IF lectures = <<>>
        THEN [ok |-> FALSE, questions |-> qs, visited |-> <<>>]
        ELSE [ok |-> Len(all.questions) > 0, questions |-> all.questions,
              visited |-> all.visited]

\* load_all_lectures: the return value, self.questions and the calls made
load_all_lectures(qs, dir) ==
    LET lectures == get_available_lectures(dir)
        all == LoadEach(lectures, qs, dir, <<>>)
    IN  IF lectures = <<>>
        THEN [ok |-> FALSE, questions |-> qs, visited |-> <<>>]
        ELSE [ok |-> Len(all.questions) > 0, questions |-> all.questions,
              visited |-> all.visited]

\* main, lines 387-388: the menu is shown over a new QuizApp
InitStore ==
    /\ pc = "menu"
    /\ files \in [LectureNames -> Documents]
    /\ questions = <<>>
    /\ SessionFresh
    /\ visited = <<>>
    /\ result = FALSE
    /\ ShuffleIdle

\* select_lecture, lines 350-353: nothing to choose from
NoLectures ==
    /\ pc = "menu"
    /\ get_available_lectures(files) = <<>>
    /\ pc' = "done"
    /\ UNCHANGED <<sessionVars, storeVars, shuffleVars>>

\* select_lecture, lines 372-373: "Quit" (or the prompt was cancelled)
SelectQuit ==
    /\ pc = "menu"
    /\ get_available_lectures(files) # <<>>
    /\ pc' = "done"
    /\ UNCHANGED <<sessionVars, storeVars, shuffleVars>>

\* select_lecture, lines 374-377: "All Lectures (Mixed)"
SelectAll ==
    /\ pc = "menu"
    /\ get_available_lectures(files) # <<>>
    /\ LET all == load_all_lectures(questions, files)
       IN  /\ questions' = all.questions
           /\ visited' = all.visited
           /\ result' = all.ok
    /\ pc' = "loaded_all"
    /\ UNCHANGED <<total_questions, score, answered_questions, i, presented, input,
                   report, raised, files, shuffleVars>>

\* select_lecture, lines 378-381: one lecture of the menu
SelectLecture ==
    /\ pc = "menu"
    /\ \E selection \in Range(get_available_lectures(files)) :
         LET loaded == load_questions(questions, files, selection)
         IN  /\ questions' = loaded.questions
             /\ visited' = <<Visit(selection, loaded, questions)>>
             /\ result' = loaded.ok
    /\ pc' = "loaded_one"
    /\ UNCHANGED <<total_questions, score, answered_questions, i, presented, input,
                   report, raised, files, shuffleVars>>

NextStore ==
    \/ NoLectures
    \/ SelectQuit
    \/ SelectAll
    \/ SelectLecture

SpecStore == InitStore /\ [][NextStore]_vars

Listed == { name \in LectureNames : files[name].kind # "absent" }

\* The questions of the visits that reported success, in visit order
RECURSIVE LoadedOf(_)
LoadedOf(log) ==
    IF log = <<>> THEN <<>>
    ELSE LET v == log[Len(log)]
         IN  LoadedOf(SubSeq(log, 1, Len(log) - 1))
               \o (IF v.ok THEN StoredQuestions(v.lecture, files[v.lecture]) ELSE <<>>)

\* C8: load_all_lectures visits every listed source once, in sorted name
\* order; the resulting list is the concatenation, in that order, of the
\* questions of exactly the sources whose load reported success; a missing,
\* malformed or unreadable source reports failure, leaves the list as it was
\* and is followed by the remaining sources.
Thm_C8 ==
    pc = "loaded_all" =>
      /\ Len(visited) = Cardinality(Listed)
      /\ { visited[k].lecture : k \in 1..Len(visited) } = Listed
      /\ \A k \in 1..(Len(visited) - 1) : visited[k].lecture < visited[k + 1].lecture
      /\ questions = LoadedOf(visited)
      /\ \A k \in 1..Len(visited) :
           /\ visited[k].before = (IF k = 1 THEN 0 ELSE visited[k - 1].after)
           /\ files[visited[k].lecture].kind \in { "vanished", "badjson", "unreadable" }
                => ~visited[k].ok
           /\ ~visited[k].ok => visited[k].after = visited[k].before
      /\ result = (Len(questions) > 0)

\* A malformed file between two good ones: both good ones are loaded.
Wit_C8 ==
    /\ pc = "loaded_all"
    /\ Len(visited) = 3
    /\ visited[1].ok /\ visited[1].after >= 1
    /\ files[visited[2].lecture].kind = "badjson" /\ ~visited[2].ok
    /\ visited[3].ok /\ visited[3].after > visited[3].before
    /\ Len(questions) = visited[3].after

----------------------------------------------------------------------------
(* The option-shuffle transform: shuffle_answers.py *)

OptionTexts == { "x", "y" }

OptionLists == UNION { [1..n -> OptionTexts] : n \in 2..MaxOptions }

\* Question entries with 0 <= correct_answer < len(options)
ShuffleInputs ==
    { [question |-> "q", options |-> oc[1], correct_answer |-> oc[2]] :
        oc \in { x \in OptionLists \X (0..(MaxOptions - 1)) : x[2] < Len(x[1]) } }

\* Documents of one or two question entries
ShuffleDocuments ==
    { <<a>> : a \in ShuffleInputs } \cup { <<a, b>> : a, b \in ShuffleInputs }

\* list.index(x): the 0-based position of the first element equal to x
index(s, x) == (CHOOSE k \in 1..Len(s) : s[k] = x /\ \A j \in 1..(k - 1) : s[j] # x) - 1

shuffle_question_options_keep_index(question) ==
    { [question EXCEPT !.options = new] : new \in Shuffles(question.options) }

\* shuffle_question_options: the entries random.shuffle can leave
shuffle_question_options(question) ==
    LET options == question.options
        correct_index == question.correct_answer
        correct_answer_text == options[correct_index + 1]
    IN  { [question EXCEPT !.options = new,
                           !.correct_answer = index(new, correct_answer_text)] :
            new \in Shuffles(options) }

\* shuffle_lecture_file, lines 29-30: every entry is shuffled in turn
RECURSIVE ShuffleEach(_)
ShuffleEach(entries) ==
    IF entries = <<>> THEN { <<>> }
    ELSE { <<h>> \o t : h \in shuffle_question_options(Head(entries)),
                       t \in ShuffleEach(Tail(entries)) }

\* shuffle_lecture_file, lines 25-26: the document was read
InitShuffle ==
    /\ pc = "read"
    /\ data \in ShuffleDocuments
    /\ original = data
    /\ questions = <<>>
    /\ SessionFresh
    /\ StoreIdle

\* shuffle_lecture_file, lines 29-34: shuffle every entry and write the file
shuffle_lecture_file ==
    /\ pc = "read"
    /\ data' \in ShuffleEach(data)
    /\ pc' = "written"
    /\ UNCHANGED <<original, sessionVars, storeVars>>

NextShuffle == shuffle_lecture_file

SpecShuffle == InitShuffle /\ [][NextShuffle]_vars

\* C10: after the transform every entry's options are a reordering of the
\* original options (same length, same texts as often) and correct_answer is
\* an in-range index whose text is the text the old correct_answer pointed at.
Thm_C10 ==
    pc = "written" =>
      /\ Len(data) = Len(original)
      /\ \A k \in 1..Len(data) :
           /\ data[k].question = original[k].question
           /\ Len(data[k].options) = Len(original[k].options)
           /\ SameBag(data[k].options, original[k].options)
           /\ 0 <= data[k].correct_answer
           /\ data[k].correct_answer < Len(data[k].options)
           /\ data[k].options[data[k].correct_answer + 1]
                = original[k].options[original[k].correct_answer + 1]

\* An entry whose correct text occurs twice was reordered and its index moved.
Wit_C10 ==
    /\ pc = "written"
    /\ \E k \in 1..Len(data) :
         /\ Count(original[k].options, original[k].options[original[k].correct_answer + 1]) = 2
         /\ data[k].options # original[k].options
         /\ data[k].correct_answer # original[k].correct_answer

====
